---- MODULE Spec2Model ----
(***************************************************************************)
(* Model of generate_2026_calendars.py: the session-day calculator         *)
(* (generate_session_days), the block grouper (group_consecutive_days),    *)
(* the event formatter (create_session_block_event, get_state_abbrev) and  *)
(* the calendar assembler (generate_calendar).                             *)
(*                                                                         *)
(* A datetime.date is modelled by its proleptic Gregorian ordinal          *)
(* (date.toordinal()), so date + timedelta(days=n) is integer addition,    *)
(* date comparison is integer comparison and (a - b).days is subtraction.  *)
(* Python str values are TLA+ strings; None is the string "None".          *)
(***************************************************************************)
EXTENDS Integers, Sequences, FiniteSets, TLC

VARIABLES
    pc,                  \* position in the function being run
    sessions_to_include, \* generate_calendar: argument, list of session ids
    calendar_title,      \* generate_calendar: argument, None or a title
    cal_name,            \* generate_calendar: the document's x-wr-calname
    events,              \* the VEVENT components added so far, in order
    total_blocks,        \* generate_calendar: running total
    total_days,          \* generate_calendar: running total
    idx,                 \* generate_calendar: index of the list element being processed
    session_data,        \* generate_session_days: argument
    session_days,        \* result of generate_session_days
    session_blocks,      \* group_consecutive_days: blocks, then its result
    current_block_start, \* group_consecutive_days: local
    current_block_end,   \* group_consecutive_days: local
    i,                   \* group_consecutive_days: loop index (1-based here)
    written,             \* generate_calendar: the output file has been written
    state_name,          \* get_state_abbrev: argument
    state_abbrev,        \* get_state_abbrev: result
    output_filename,     \* generate_calendar: argument, the path written to
    files,               \* the paths written to so far, one entry per write
    g,                   \* main: which of its generate_calendar calls is next
    all_states           \* main: local

vars == << pc, sessions_to_include, calendar_title, cal_name, events,
           total_blocks, total_days, idx, session_data, session_days,
           session_blocks, current_block_start, current_block_end, i,
           written, state_name, state_abbrev,
           output_filename, files, g, all_states >>

None == "None"

(***************************************************************************)
(* Bounds of the model.                                                    *)
(***************************************************************************)
\* longest list of session ids passed to generate_calendar
MaxIds == 2
\* number of consecutive calendar dates the calculator's inputs are drawn from
NumDates == 6
\* longest recess_periods list of a drawn session
MaxRecess == 1
\* number of consecutive calendar dates the grouper's inputs are drawn from
NumDays == 7

(***************************************************************************)
(* datetime: date(y, m, d), strptime(s, '%Y-%m-%d').date(), weekday().     *)
(***************************************************************************)
IsLeap(y) == y % 4 = 0 /\ (y % 100 # 0 \/ y % 400 = 0)

DaysInMonth(y, m) ==
    IF m = 2 THEN (IF IsLeap(y) THEN 29 ELSE 28)
    ELSE IF m \in {4, 6, 9, 11} THEN 30 ELSE 31

RECURSIVE DaysBeforeMonth(_, _)
DaysBeforeMonth(y, m) ==
    IF m = 1 THEN 0 ELSE DaysBeforeMonth(y, m - 1) + DaysInMonth(y, m - 1)

DaysBeforeYear(y) ==
    (y - 1) * 365 + ((y - 1) \div 4) - ((y - 1) \div 100) + ((y - 1) \div 400)

date(y, m, d) == DaysBeforeYear(y) + DaysBeforeMonth(y, m) + d

Digit(c) ==
    CASE c = "0" -> 0 [] c = "1" -> 1 [] c = "2" -> 2 [] c = "3" -> 3
      [] c = "4" -> 4 [] c = "5" -> 5 [] c = "6" -> 6 [] c = "7" -> 7
      [] c = "8" -> 8 [] c = "9" -> 9

RECURSIVE ParseInt(_)
ParseInt(s) ==
    IF Len(s) = 0 THEN 0
    ELSE 10 * ParseInt(SubSeq(s, 1, Len(s) - 1)) + Digit(SubSeq(s, Len(s), Len(s)))

\* datetime.strptime(date_str, '%Y-%m-%d').date() on a zero-padded literal
strptime(date_str) ==
    date(ParseInt(SubSeq(date_str, 1, 4)),
         ParseInt(SubSeq(date_str, 6, 7)),
         ParseInt(SubSeq(date_str, 9, 10)))

\* date.weekday(): Monday is 0, Sunday is 6
weekday(d) == (d + 6) % 7

(***************************************************************************)
(* Static tables.                                                          *)
(***************************************************************************)
(* STATE_ABBREV: the dict in insertion order, which is the order its items() are iterated in. *)
STATE_ABBREV ==
    << <<"Alabama", "AL">>,
       <<"Alaska", "AK">>,
       <<"Arizona", "AZ">>,
       <<"Arkansas", "AR">>,
       <<"California", "CA">>,
       <<"Colorado", "CO">>,
       <<"Connecticut", "CT">>,
       <<"Delaware", "DE">>,
       <<"Florida", "FL">>,
       <<"Georgia", "GA">>,
       <<"Hawaii", "HI">>,
       <<"Idaho", "ID">>,
       <<"Illinois", "IL">>,
       <<"Indiana", "IN">>,
       <<"Iowa", "IA">>,
       <<"Kansas", "KS">>,
       <<"Kentucky", "KY">>,
       <<"Louisiana", "LA">>,
       <<"Maine", "ME">>,
       <<"Maryland", "MD">>,
       <<"Massachusetts", "MA">>,
       <<"Michigan", "MI">>,
       <<"Minnesota", "MN">>,
       <<"Mississippi", "MS">>,
       <<"Missouri", "MO">>,
       <<"Montana", "MT">>,
       <<"Nebraska", "NE">>,
       <<"Nevada", "NV">>,
       <<"New Hampshire", "NH">>,
       <<"New Jersey", "NJ">>,
       <<"New Mexico", "NM">>,
       <<"New York", "NY">>,
       <<"North Carolina", "NC">>,
       <<"North Dakota", "ND">>,
       <<"Ohio", "OH">>,
       <<"Oklahoma", "OK">>,
       <<"Oregon", "OR">>,
       <<"Pennsylvania", "PA">>,
       <<"Rhode Island", "RI">>,
       <<"South Carolina", "SC">>,
       <<"South Dakota", "SD">>,
       <<"Tennessee", "TN">>,
       <<"Texas", "TX">>,
       <<"Utah", "UT">>,
       <<"Vermont", "VT">>,
       <<"Virginia", "VA">>,
       <<"Washington", "WA">>,
       <<"West Virginia", "WV">>,
       <<"Wisconsin", "WI">>,
       <<"Wyoming", "WY">> >>

(* FEDERAL_HOLIDAYS_2026: a list of date objects. *)
FEDERAL_HOLIDAYS_2026 ==
    << date(2026, 1, 1),
       date(2026, 1, 19),
       date(2026, 2, 16),
       date(2026, 5, 25),
       date(2026, 7, 3),
       date(2026, 9, 7),
       date(2026, 10, 12),
       date(2026, 11, 11),
       date(2026, 11, 26),
       date(2026, 11, 27),
       date(2026, 12, 25) >>

(* LEGISLATIVE_SESSIONS_2026: session id -> session_data. The free-text
   'description' field is read by no function and is left out. *)
LEGISLATIVE_SESSIONS_2026 ==
    "US_House" :> [name |-> "U.S. House of Representatives", start_date |-> "2026-01-06", end_date |-> "2026-12-31",
        recess_periods |-> << <<"2026-02-14", "2026-02-22">>, <<"2026-03-28", "2026-04-12">>, <<"2026-05-23", "2026-05-31">>, <<"2026-07-04", "2026-09-07">>, <<"2026-11-21", "2026-11-29">>, <<"2026-12-19", "2026-12-31">> >>]
 @@ "US_Senate" :> [name |-> "U.S. Senate", start_date |-> "2026-01-06", end_date |-> "2026-12-31",
        recess_periods |-> << <<"2026-02-14", "2026-02-22">>, <<"2026-03-28", "2026-04-12">>, <<"2026-05-23", "2026-05-31">>, <<"2026-07-04", "2026-09-07">>, <<"2026-11-21", "2026-11-29">>, <<"2026-12-19", "2026-12-31">> >>]
 @@ "Alabama" :> [name |-> "Alabama Legislature", start_date |-> "2026-01-13", end_date |-> "2026-03-27",
        recess_periods |-> << >>]
 @@ "Alaska" :> [name |-> "Alaska Legislature", start_date |-> "2026-01-20", end_date |-> "2026-05-20",
        recess_periods |-> << >>]
 @@ "Arizona" :> [name |-> "Arizona Legislature", start_date |-> "2026-01-12", end_date |-> "2026-04-25",
        recess_periods |-> << >>]
 @@ "Arkansas" :> [name |-> "Arkansas Legislature", start_date |-> "2026-04-08", end_date |-> "2026-05-07",
        recess_periods |-> << >>]
 @@ "California" :> [name |-> "California State Legislature", start_date |-> "2026-01-05", end_date |-> "2026-08-31",
        recess_periods |-> << <<"2026-02-16", "2026-02-22">>, <<"2026-04-06", "2026-04-12">>, <<"2026-07-04", "2026-07-12">> >>]
 @@ "Colorado" :> [name |-> "Colorado General Assembly", start_date |-> "2026-01-14", end_date |-> "2026-05-13",
        recess_periods |-> << >>]
 @@ "Connecticut" :> [name |-> "Connecticut General Assembly", start_date |-> "2026-02-04", end_date |-> "2026-05-06",
        recess_periods |-> << >>]
 @@ "Delaware" :> [name |-> "Delaware General Assembly", start_date |-> "2026-01-13", end_date |-> "2026-06-30",
        recess_periods |-> << >>]
 @@ "Florida" :> [name |-> "Florida Legislature", start_date |-> "2026-01-13", end_date |-> "2026-03-13",
        recess_periods |-> << >>]
 @@ "Georgia" :> [name |-> "Georgia General Assembly", start_date |-> "2026-01-12", end_date |-> "2026-04-06",
        recess_periods |-> << >>]
 @@ "Hawaii" :> [name |-> "Hawaii State Legislature", start_date |-> "2026-01-21", end_date |-> "2026-05-07",
        recess_periods |-> << >>]
 @@ "Idaho" :> [name |-> "Idaho Legislature", start_date |-> "2026-01-12", end_date |-> "2026-04-10",
        recess_periods |-> << >>]
 @@ "Illinois" :> [name |-> "Illinois General Assembly", start_date |-> "2026-01-14", end_date |-> "2026-05-31",
        recess_periods |-> << >>]
 @@ "Indiana" :> [name |-> "Indiana General Assembly", start_date |-> "2026-01-05", end_date |-> "2026-03-14",
        recess_periods |-> << >>]
 @@ "Iowa" :> [name |-> "Iowa General Assembly", start_date |-> "2026-01-12", end_date |-> "2026-04-21",
        recess_periods |-> << >>]
 @@ "Kansas" :> [name |-> "Kansas Legislature", start_date |-> "2026-01-12", end_date |-> "2026-04-10",
        recess_periods |-> << >>]
 @@ "Kentucky" :> [name |-> "Kentucky General Assembly", start_date |-> "2026-01-06", end_date |-> "2026-04-15",
        recess_periods |-> << >>]
 @@ "Louisiana" :> [name |-> "Louisiana Legislature", start_date |-> "2026-03-09", end_date |-> "2026-06-01",
        recess_periods |-> << >>]
 @@ "Maine" :> [name |-> "Maine Legislature", start_date |-> "2026-01-07", end_date |-> "2026-04-15",
        recess_periods |-> << >>]
 @@ "Maryland" :> [name |-> "Maryland General Assembly", start_date |-> "2026-01-14", end_date |-> "2026-04-13",
        recess_periods |-> << >>]
 @@ "Massachusetts" :> [name |-> "Massachusetts General Court", start_date |-> "2026-01-07", end_date |-> "2026-07-31",
        recess_periods |-> << >>]
 @@ "Michigan" :> [name |-> "Michigan Legislature", start_date |-> "2026-01-14", end_date |-> "2026-12-31",
        recess_periods |-> << <<"2026-07-04", "2026-09-08">> >>]
 @@ "Minnesota" :> [name |-> "Minnesota Legislature", start_date |-> "2026-02-17", end_date |-> "2026-05-18",
        recess_periods |-> << >>]
 @@ "Mississippi" :> [name |-> "Mississippi Legislature", start_date |-> "2026-01-06", end_date |-> "2026-05-05",
        recess_periods |-> << >>]
 @@ "Missouri" :> [name |-> "Missouri General Assembly", start_date |-> "2026-01-07", end_date |-> "2026-05-15",
        recess_periods |-> << <<"2026-03-16", "2026-03-22">> >>]
 @@ "Montana" :> [name |-> "Montana Legislature", start_date |-> None, end_date |-> None,
        recess_periods |-> << >>]
 @@ "Nebraska" :> [name |-> "Nebraska Legislature (Unicameral)", start_date |-> "2026-01-07", end_date |-> "2026-04-17",
        recess_periods |-> << >>]
 @@ "Nevada" :> [name |-> "Nevada Legislature", start_date |-> None, end_date |-> None,
        recess_periods |-> << >>]
 @@ "New_Hampshire" :> [name |-> "New Hampshire General Court", start_date |-> "2026-01-07", end_date |-> "2026-06-30",
        recess_periods |-> << >>]
 @@ "New_Jersey" :> [name |-> "New Jersey Legislature", start_date |-> "2026-01-13", end_date |-> "2026-12-31",
        recess_periods |-> << <<"2026-07-04", "2026-09-08">> >>]
 @@ "New_Mexico" :> [name |-> "New Mexico Legislature", start_date |-> "2026-01-20", end_date |-> "2026-02-19",
        recess_periods |-> << >>]
 @@ "New_York" :> [name |-> "New York State Legislature", start_date |-> "2026-01-07", end_date |-> "2026-06-10",
        recess_periods |-> << >>]
 @@ "North_Carolina" :> [name |-> "North Carolina General Assembly", start_date |-> "2026-04-21", end_date |-> "2026-08-31",
        recess_periods |-> << >>]
 @@ "North_Dakota" :> [name |-> "North Dakota Legislative Assembly", start_date |-> None, end_date |-> None,
        recess_periods |-> << >>]
 @@ "Ohio" :> [name |-> "Ohio General Assembly", start_date |-> "2026-01-05", end_date |-> "2026-12-31",
        recess_periods |-> << <<"2026-07-04", "2026-09-08">> >>]
 @@ "Oklahoma" :> [name |-> "Oklahoma Legislature", start_date |-> "2026-02-02", end_date |-> "2026-05-29",
        recess_periods |-> << >>]
 @@ "Oregon" :> [name |-> "Oregon Legislative Assembly", start_date |-> "2026-02-02", end_date |-> "2026-03-09",
        recess_periods |-> << >>]
 @@ "Pennsylvania" :> [name |-> "Pennsylvania General Assembly", start_date |-> "2026-01-06", end_date |-> "2026-11-30",
        recess_periods |-> << <<"2026-07-04", "2026-09-08">> >>]
 @@ "Rhode_Island" :> [name |-> "Rhode Island General Assembly", start_date |-> "2026-01-06", end_date |-> "2026-06-30",
        recess_periods |-> << >>]
 @@ "South_Carolina" :> [name |-> "South Carolina General Assembly", start_date |-> "2026-01-13", end_date |-> "2026-05-07",
        recess_periods |-> << >>]
 @@ "South_Dakota" :> [name |-> "South Dakota Legislature", start_date |-> "2026-01-13", end_date |-> "2026-03-30",
        recess_periods |-> << >>]
 @@ "Tennessee" :> [name |-> "Tennessee General Assembly", start_date |-> "2026-01-13", end_date |-> "2026-04-24",
        recess_periods |-> << >>]
 @@ "Texas" :> [name |-> "Texas Legislature", start_date |-> None, end_date |-> None,
        recess_periods |-> << >>]
 @@ "Utah" :> [name |-> "Utah Legislature", start_date |-> "2026-01-20", end_date |-> "2026-03-06",
        recess_periods |-> << >>]
 @@ "Vermont" :> [name |-> "Vermont General Assembly", start_date |-> "2026-01-06", end_date |-> "2026-05-08",
        recess_periods |-> << >>]
 @@ "Virginia" :> [name |-> "Virginia General Assembly", start_date |-> "2026-01-14", end_date |-> "2026-03-14",
        recess_periods |-> << >>]
 @@ "Washington" :> [name |-> "Washington Legislature", start_date |-> "2026-01-12", end_date |-> "2026-03-12",
        recess_periods |-> << >>]
 @@ "West_Virginia" :> [name |-> "West Virginia Legislature", start_date |-> "2026-01-14", end_date |-> "2026-03-14",
        recess_periods |-> << >>]
 @@ "Wisconsin" :> [name |-> "Wisconsin Legislature", start_date |-> "2026-01-13", end_date |-> "2026-03-19",
        recess_periods |-> << >>]
 @@ "Wyoming" :> [name |-> "Wyoming Legislature", start_date |-> "2026-02-09", end_date |-> "2026-03-06",
        recess_periods |-> << >>]

(***************************************************************************)
(* get_state_abbrev                                                        *)
(***************************************************************************)
\* Python's `sub in s` on str
Contains(s, sub) ==
    \E p \in 1..(Len(s) - Len(sub) + 1) : SubSeq(s, p, p + Len(sub) - 1) = sub

\* the for loop over STATE_ABBREV.items(), from the k-th item on
RECURSIVE AbbrevFrom(_, _)
AbbrevFrom(name, k) ==
    IF k > Len(STATE_ABBREV) THEN name
    ELSE IF Contains(name, STATE_ABBREV[k][1]) THEN STATE_ABBREV[k][2]
    ELSE AbbrevFrom(name, k + 1)

get_state_abbrev(name) == AbbrevFrom(name, 1)

(***************************************************************************)
(* Session day calculator                                                  *)
(***************************************************************************)
\* is_weekday that takes Saturday for a weekday
is_weekday_with_saturday(check_date) == weekday(check_date) < 6

is_weekday(check_date) == weekday(check_date) < 5

\* is_in_recess with the window's last day left out
is_in_recess_open_end(check_date, recess_periods) ==
    \E k \in 1..Len(recess_periods) :
        /\ strptime(recess_periods[k][1]) <= check_date
        /\ check_date < strptime(recess_periods[k][2])

is_in_recess(check_date, recess_periods) ==
    \E k \in 1..Len(recess_periods) :
        /\ strptime(recess_periods[k][1]) <= check_date
        /\ check_date <= strptime(recess_periods[k][2])

InList(x, list) == \E k \in 1..Len(list) : list[k] = x

\* the while loop of generate_session_days: current_date runs over
\* start_date, start_date + 1, ..., end_date and the dates that pass the
\* test are appended in that order
SessionDaysLoop(start_date, end_date, recess_periods) ==
    SelectSeq([k \in 1..(end_date - start_date + 1) |-> start_date + (k - 1)],
              LAMBDA current_date :
                  /\ is_weekday(current_date)
                  /\ ~InList(current_date, FEDERAL_HOLIDAYS_2026)
                  /\ ~is_in_recess(current_date, recess_periods))

\* generate_session_days that takes absent dates for the whole year
generate_session_days_whole_year(sd) ==
    SessionDaysLoop(
        IF sd.start_date = None THEN date(2026, 1, 1) ELSE strptime(sd.start_date),
        IF sd.end_date = None THEN date(2026, 12, 31) ELSE strptime(sd.end_date),
        IF "recess_periods" \in DOMAIN sd THEN sd.recess_periods ELSE << >>)

generate_session_days(sd) ==
    IF sd.start_date = None \/ sd.end_date = None
    THEN << >>
    ELSE SessionDaysLoop(
             strptime(sd.start_date), strptime(sd.end_date),
             IF "recess_periods" \in DOMAIN sd THEN sd.recess_periods ELSE << >>)

(***************************************************************************)
(* Event formatter                                                         *)
(***************************************************************************)
\* create_session_block_event with the day count one short
create_session_block_event_short_count(sid, session_name, block_start, block_end, block_num) ==
    LET num_days == block_end - block_start
        abbrev   == get_state_abbrev(session_name)
    IN  [ summary     |-> IF num_days = 1
                          THEN abbrev \o " - In Session"
                          ELSE abbrev \o " - In Session (" \o ToString(num_days) \o " days)",
          dtstart     |-> block_start,
          dtend       |-> block_end + 1,
          description |-> "Legislature in session",
          uid         |-> sid \o "-2026-block-" \o ToString(block_num)
                              \o "@legislative-calendar.beekeepergroup.com",
          transp      |-> "TRANSPARENT" ]

\* create_session_block_event with the block's last day as dtend
create_session_block_event_inclusive_end(sid, session_name, block_start, block_end, block_num) ==
    LET num_days == (block_end - block_start) + 1
        abbrev   == get_state_abbrev(session_name)
    IN  [ summary     |-> IF num_days = 1
                          THEN abbrev \o " - In Session"
                          ELSE abbrev \o " - In Session (" \o ToString(num_days) \o " days)",
          dtstart     |-> block_start,
          dtend       |-> block_end,
          description |-> "Legislature in session",
          uid         |-> sid \o "-2026-block-" \o ToString(block_num)
                              \o "@legislative-calendar.beekeepergroup.com",
          transp      |-> "TRANSPARENT" ]

\* create_session_block_event with a uid that leaves the block number out
create_session_block_event_uid_per_session(sid, session_name, block_start, block_end, block_num) ==
    LET num_days == (block_end - block_start) + 1
        abbrev   == get_state_abbrev(session_name)
    IN  [ summary     |-> IF num_days = 1
                          THEN abbrev \o " - In Session"
                          ELSE abbrev \o " - In Session (" \o ToString(num_days) \o " days)",
          dtstart     |-> block_start,
          dtend       |-> block_end + 1,
          description |-> "Legislature in session",
          uid         |-> sid \o "-2026-block@legislative-calendar.beekeepergroup.com",
          transp      |-> "TRANSPARENT" ]

\* The dtstamp property (datetime.now) is wall-clock time and is left out.
create_session_block_event(sid, session_name, block_start, block_end, block_num) ==
    LET ics_end_date == block_end + 1
        num_days     == (block_end - block_start) + 1
        abbrev       == get_state_abbrev(session_name)
        summary      == IF num_days = 1
                        THEN abbrev \o " - In Session"
                        ELSE abbrev \o " - In Session (" \o ToString(num_days) \o " days)"
    IN  [ summary     |-> summary,
          dtstart     |-> block_start,
          dtend       |-> ics_end_date,
          description |-> "Legislature in session",
          uid         |-> sid \o "-2026-block-" \o ToString(block_num)
                              \o "@legislative-calendar.beekeepergroup.com",
          transp      |-> "TRANSPARENT" ]

(***************************************************************************)
(* Block grouper: group_consecutive_days(session_days), one action per     *)
(* step of its loop.  session_blocks is its list `blocks`.                 *)
(***************************************************************************)
\* lines 488-493: the empty case, or the first block opened on session_days[0]
GroupBegin ==
    /\ pc = "group"
    /\ IF session_days = << >>
       THEN /\ session_blocks' = << >>
            /\ pc' = "blocks"
            /\ UNCHANGED << current_block_start, current_block_end, i >>
       ELSE /\ session_blocks' = << >>
            /\ current_block_start' = session_days[1]
            /\ current_block_end' = session_days[1]
            /\ i' = 2
            /\ pc' = "group_loop"
    /\ UNCHANGED << sessions_to_include, calendar_title, cal_name, events,
                    total_blocks, total_days, idx, session_data, session_days,
                    written, state_name, state_abbrev,
                    output_filename, files, g, all_states >>

\* GroupStep that never extends the current block
GroupStep_never_extends ==
    /\ pc = "group_loop"
    /\ i <= Len(session_days)
    /\ session_blocks' =
           Append(session_blocks, << current_block_start, current_block_end >>)
    /\ current_block_start' = session_days[i]
    /\ current_block_end' = session_days[i]
    /\ i' = i + 1
    /\ UNCHANGED << pc, sessions_to_include, calendar_title, cal_name, events,
                    total_blocks, total_days, idx, session_data, session_days,
                    written, state_name, state_abbrev,
                    output_filename, files, g, all_states >>

\* lines 495-504: one iteration of the for loop
GroupStep ==
    /\ pc = "group_loop"
    /\ i <= Len(session_days)
    /\ IF session_days[i] = current_block_end + 1
       THEN /\ current_block_end' = session_days[i]
            /\ UNCHANGED << session_blocks, current_block_start >>
       ELSE /\ session_blocks' =
                  Append(session_blocks, << current_block_start, current_block_end >>)
            /\ current_block_start' = session_days[i]
            /\ current_block_end' = session_days[i]
    /\ i' = i + 1
    /\ UNCHANGED << pc, sessions_to_include, calendar_title, cal_name, events,
                    total_blocks, total_days, idx, session_data, session_days,
                    written, state_name, state_abbrev,
                    output_filename, files, g, all_states >>

\* GroupEnd that forgets the last block
GroupEnd_drops_last ==
    /\ pc = "group_loop"
    /\ i > Len(session_days)
    /\ pc' = "blocks"
    /\ UNCHANGED << sessions_to_include, calendar_title, cal_name, events,
                    total_blocks, total_days, idx, session_data, session_days,
                    session_blocks, current_block_start, current_block_end, i,
                    written, state_name, state_abbrev,
                    output_filename, files, g, all_states >>

\* lines 506-509: the last block is appended and the list returned
GroupEnd ==
    /\ pc = "group_loop"
    /\ i > Len(session_days)
    /\ session_blocks' =
           Append(session_blocks, << current_block_start, current_block_end >>)
    /\ pc' = "blocks"
    /\ UNCHANGED << sessions_to_include, calendar_title, cal_name, events,
                    total_blocks, total_days, idx, session_data, session_days,
                    current_block_start, current_block_end, i,
                    written, state_name, state_abbrev,
                    output_filename, files, g, all_states >>

(***************************************************************************)
(* Calendar assembler: generate_calendar(sessions_to_include,              *)
(* output_filename, calendar_title)                                        *)
(***************************************************************************)
\* DetermineTitle that derives the title from the first id of any
\* non-empty list
DetermineTitle_first_of_many ==
    /\ pc = "start"
    /\ IF calendar_title = None
       THEN IF Len(sessions_to_include) >= 1
            THEN IF sessions_to_include[1] \in DOMAIN LEGISLATIVE_SESSIONS_2026
                 THEN /\ cal_name' =
                            get_state_abbrev(
                                LEGISLATIVE_SESSIONS_2026[sessions_to_include[1]].name)
                            \o " - 2026 Legislative Session"
                      /\ pc' = "loop"
                 ELSE /\ pc' = "KeyError"
                      /\ UNCHANGED cal_name
            ELSE /\ cal_name' = "Legislative Sessions Calendar 2026"
                 /\ pc' = "loop"
       ELSE /\ cal_name' = calendar_title
            /\ pc' = "loop"
    /\ UNCHANGED << sessions_to_include, calendar_title, events, total_blocks,
                    total_days, idx, session_data, session_days, session_blocks,
                    current_block_start, current_block_end, i,
                    written, state_name, state_abbrev,
                    output_filename, files, g, all_states >>

\* lines 545-559: the title; LEGISLATIVE_SESSIONS_2026[sessions_to_include[0]]
\* raises KeyError for an id that is not a key, which ends the call
DetermineTitle ==
    /\ pc = "start"
    /\ IF calendar_title = None
       THEN IF Len(sessions_to_include) = 1
            THEN IF sessions_to_include[1] \in DOMAIN LEGISLATIVE_SESSIONS_2026
                 THEN /\ cal_name' =
                            get_state_abbrev(
                                LEGISLATIVE_SESSIONS_2026[sessions_to_include[1]].name)
                            \o " - 2026 Legislative Session"
                      /\ pc' = "loop"
                 ELSE /\ pc' = "KeyError"
                      /\ UNCHANGED cal_name
            ELSE /\ cal_name' = "Legislative Sessions Calendar 2026"
                 /\ pc' = "loop"
       ELSE /\ cal_name' = calendar_title
            /\ pc' = "loop"
    /\ UNCHANGED << sessions_to_include, calendar_title, events, total_blocks,
                    total_days, idx, session_data, session_days, session_blocks,
                    current_block_start, current_block_end, i,
                    written, state_name, state_abbrev,
                    output_filename, files, g, all_states >>

\* lines 567-570: an id that is not in the table is warned about and skipped
SkipUnknown ==
    /\ pc = "loop"
    /\ idx <= Len(sessions_to_include)
    /\ sessions_to_include[idx] \notin DOMAIN LEGISLATIVE_SESSIONS_2026
    /\ idx' = idx + 1
    /\ UNCHANGED << pc, sessions_to_include, calendar_title, cal_name, events,
                    total_blocks, total_days, session_data, session_days,
                    session_blocks, current_block_start, current_block_end, i,
                    written, state_name, state_abbrev,
                    output_filename, files, g, all_states >>

\* line 572: session_data = LEGISLATIVE_SESSIONS_2026[session_id]
LoadSession ==
    /\ pc = "loop"
    /\ idx <= Len(sessions_to_include)
    /\ sessions_to_include[idx] \in DOMAIN LEGISLATIVE_SESSIONS_2026
    /\ session_data' = LEGISLATIVE_SESSIONS_2026[sessions_to_include[idx]]
    /\ pc' = "days"
    /\ UNCHANGED << sessions_to_include, calendar_title, cal_name, events,
                    total_blocks, total_days, idx, session_days, session_blocks,
                    current_block_start, current_block_end, i,
                    written, state_name, state_abbrev,
                    output_filename, files, g, all_states >>

\* line 573: session_days = generate_session_days(session_data)
GenerateDays ==
    /\ pc = "days"
    /\ session_days' = generate_session_days(session_data)
    /\ pc' = "group"
    /\ UNCHANGED << sessions_to_include, calendar_title, cal_name, events,
                    total_blocks, total_days, idx, session_data, session_blocks,
                    current_block_start, current_block_end, i,
                    written, state_name, state_abbrev,
                    output_filename, files, g, all_states >>

\* AddEvents that numbers the blocks with one counter for the whole
\* document
AddEvents_document_counter ==
    /\ pc = "blocks"
    /\ events' = events \o
           [ n \in 1..Len(session_blocks) |->
               create_session_block_event(
                   sessions_to_include[idx], session_data.name,
                   session_blocks[n][1], session_blocks[n][2],
                   Len(events) + n - 1) ]
    /\ total_blocks' = total_blocks + Len(session_blocks)
    /\ total_days' = total_days + Len(session_days)
    /\ idx' = idx + 1
    /\ pc' = "loop"
    /\ UNCHANGED << sessions_to_include, calendar_title, cal_name, session_data,
                    session_days, session_blocks, current_block_start,
                    current_block_end, i, written, state_name, state_abbrev,
                    output_filename, files, g, all_states >>

\* AddEvents that adds the session's block count to the day total
AddEvents_days_as_blocks ==
    /\ pc = "blocks"
    /\ events' = events \o
           [ n \in 1..Len(session_blocks) |->
               create_session_block_event(
                   sessions_to_include[idx], session_data.name,
                   session_blocks[n][1], session_blocks[n][2], n - 1) ]
    /\ total_blocks' = total_blocks + Len(session_blocks)
    /\ total_days' = total_days + Len(session_blocks)
    /\ idx' = idx + 1
    /\ pc' = "loop"
    /\ UNCHANGED << sessions_to_include, calendar_title, cal_name, session_data,
                    session_days, session_blocks, current_block_start,
                    current_block_end, i, written, state_name, state_abbrev,
                    output_filename, files, g, all_states >>

\* lines 576-588: one event per block, numbered from 0 within the session,
\* appended to the calendar; then the totals
AddEvents ==
    /\ pc = "blocks"
    /\ events' = events \o
           [ n \in 1..Len(session_blocks) |->
               create_session_block_event(
                   sessions_to_include[idx], session_data.name,
                   session_blocks[n][1], session_blocks[n][2], n - 1) ]
    /\ total_blocks' = total_blocks + Len(session_blocks)
    /\ total_days' = total_days + Len(session_days)
    /\ idx' = idx + 1
    /\ pc' = "loop"
    /\ UNCHANGED << sessions_to_include, calendar_title, cal_name, session_data,
                    session_days, session_blocks, current_block_start,
                    current_block_end, i, written, state_name, state_abbrev,
                    output_filename, files, g, all_states >>

\* lines 590-595: the document is written and the call returns
WriteFile ==
    /\ pc = "loop"
    /\ idx > Len(sessions_to_include)
    /\ written' = TRUE
    /\ files' = Append(files, output_filename)
    /\ pc' = "done"
    /\ UNCHANGED << sessions_to_include, calendar_title, cal_name, events,
                    total_blocks, total_days, idx, session_data, session_days,
                    session_blocks, current_block_start, current_block_end, i,
                    state_name, state_abbrev,
                    output_filename, g, all_states >>

\* get_state_abbrev(state_name) as a call of its own
ResolveAbbrev ==
    /\ pc = "abbrev"
    /\ state_abbrev' = get_state_abbrev(state_name)
    /\ pc' = "resolved"
    /\ UNCHANGED << sessions_to_include, calendar_title, cal_name, events,
                    total_blocks, total_days, idx, session_data, session_days,
                    session_blocks, current_block_start, current_block_end, i,
                    written, state_name,
                    output_filename, files, g, all_states >>

(***************************************************************************)
(* Batch driver: main()                                                    *)
(***************************************************************************)
\* the characters of the session ids, in code point order
Alphabet == "ABCDEFGHIJKLMNOPQRSTUVWXYZ_abcdefghijklmnopqrstuvwxyz"

CodePoint(c) == CHOOSE k \in 1..Len(Alphabet) : SubSeq(Alphabet, k, k) = c

\* Python's a < b on str
StrLess(a, b) ==
    \E p \in 1..(Len(b)) :
        /\ p <= Len(a) + 1
        /\ SubSeq(a, 1, p - 1) = SubSeq(b, 1, p - 1)
        /\ \/ p = Len(a) + 1
           \/ CodePoint(SubSeq(a, p, p)) < CodePoint(SubSeq(b, p, p))

\* list.sort() on a list of distinct strings, given as their set
Sorted(S) ==
    [ k \in 1..Cardinality(S) |->
        CHOOSE x \in S : Cardinality({ y \in S : StrLess(y, x) }) = k - 1 ]

\* str.lower() on one character
LowerChar(c) ==
    IF \E k \in 1..26 : SubSeq(Alphabet, k, k) = c
    THEN SubSeq(Alphabet, CodePoint(c) + 27, CodePoint(c) + 27)
    ELSE c

\* str.lower()
RECURSIVE lower(_)
lower(s) ==
    IF Len(s) = 0 THEN ""
    ELSE LowerChar(SubSeq(s, 1, 1)) \o lower(SubSeq(s, 2, Len(s)))

northeast ==
    << "Connecticut", "Maine", "Massachusetts", "New_Hampshire",
       "New_Jersey", "New_York", "Pennsylvania", "Rhode_Island", "Vermont" >>

southeast ==
    << "Alabama", "Arkansas", "Florida", "Georgia", "Kentucky",
       "Louisiana", "Mississippi", "North_Carolina", "South_Carolina",
       "Tennessee", "Virginia", "West_Virginia" >>

midwest ==
    << "Illinois", "Indiana", "Iowa", "Kansas", "Michigan",
       "Minnesota", "Missouri", "Nebraska", "Ohio", "South_Dakota", "Wisconsin" >>

west ==
    << "Alaska", "Arizona", "California", "Colorado", "Hawaii",
       "Idaho", "New_Mexico", "Oklahoma", "Oregon", "Utah", "Washington", "Wyoming" >>

Call(ids, path, title) ==
    [ sessions_to_include |-> ids, output_filename |-> path, calendar_title |-> title ]

\* Groupings that names each state's file after the state's abbreviation
Groupings_file_per_abbrev(states) ==
    << Call(<< "US_House", "US_Senate" >>,
            "output/federal_legislative_calendar_2026.ics",
            "Federal - 2026 Legislative Session") >>
    \o [ k \in 1..Len(states) |->
           Call(<< states[k] >>,
                "output/"
                    \o lower(get_state_abbrev(LEGISLATIVE_SESSIONS_2026[states[k]].name))
                    \o "_legislative_calendar_2026.ics",
                get_state_abbrev(LEGISLATIVE_SESSIONS_2026[states[k]].name)
                    \o " - 2026 Legislative Session") ]
    \o << Call(<< "US_House", "US_Senate" >> \o states,
               "output/all_legislative_sessions_2026.ics",
               "All Legislative Sessions - 2026"),
          Call(northeast, "output/northeast_states_2026.ics",
               "Northeast States - 2026 Legislative Sessions"),
          Call(southeast, "output/southeast_states_2026.ics",
               "Southeast States - 2026 Legislative Sessions"),
          Call(midwest, "output/midwest_states_2026.ics",
               "Midwest States - 2026 Legislative Sessions"),
          Call(west, "output/west_states_2026.ics",
               "West States - 2026 Legislative Sessions") >>

\* the generate_calendar calls of main, in the order it makes them
Groupings(states) ==
    << Call(<< "US_House", "US_Senate" >>,
            "output/federal_legislative_calendar_2026.ics",
            "Federal - 2026 Legislative Session") >>
    \o [ k \in 1..Len(states) |->
           Call(<< states[k] >>,
                "output/" \o lower(states[k]) \o "_legislative_calendar_2026.ics",
                get_state_abbrev(LEGISLATIVE_SESSIONS_2026[states[k]].name)
                    \o " - 2026 Legislative Session") ]
    \o << Call(<< "US_House", "US_Senate" >> \o states,
               "output/all_legislative_sessions_2026.ics",
               "All Legislative Sessions - 2026"),
          Call(northeast, "output/northeast_states_2026.ics",
               "Northeast States - 2026 Legislative Sessions"),
          Call(southeast, "output/southeast_states_2026.ics",
               "Southeast States - 2026 Legislative Sessions"),
          Call(midwest, "output/midwest_states_2026.ics",
               "Midwest States - 2026 Legislative Sessions"),
          Call(west, "output/west_states_2026.ics",
               "West States - 2026 Legislative Sessions") >>

\* lines 597-624: all_states, the dated sessions but the two chambers, sorted
MainBegin ==
    /\ pc = "main"
    /\ all_states' =
           Sorted({ key \in DOMAIN LEGISLATIVE_SESSIONS_2026 :
                      /\ key \notin { "US_House", "US_Senate" }
                      /\ LEGISLATIVE_SESSIONS_2026[key].start_date # None })
    /\ g' = 1
    /\ pc' = "main_loop"
    /\ UNCHANGED << sessions_to_include, calendar_title, cal_name, events,
                    total_blocks, total_days, idx, session_data, session_days,
                    session_blocks, current_block_start, current_block_end, i,
                    written, state_name, state_abbrev, output_filename, files >>

\* lines 611-687: the next call of generate_calendar is entered (lines 541-543,
\* 563-564: a new Calendar, totals at 0)
MainCall ==
    /\ pc = "main_loop"
    /\ g <= Len(Groupings(all_states))
    /\ sessions_to_include' = Groupings(all_states)[g].sessions_to_include
    /\ output_filename' = Groupings(all_states)[g].output_filename
    /\ calendar_title' = Groupings(all_states)[g].calendar_title
    /\ cal_name' = None
    /\ events' = << >>
    /\ total_blocks' = 0
    /\ total_days' = 0
    /\ idx' = 1
    /\ written' = FALSE
    /\ pc' = "start"
    /\ UNCHANGED << session_data, session_days, session_blocks,
                    current_block_start, current_block_end, i,
                    state_name, state_abbrev, files, g, all_states >>

\* line 595: generate_calendar returns to main
MainReturn ==
    /\ pc = "done"
    /\ g' = g + 1
    /\ pc' = "main_loop"
    /\ UNCHANGED << sessions_to_include, calendar_title, cal_name, events,
                    total_blocks, total_days, idx, session_data, session_days,
                    session_blocks, current_block_start, current_block_end, i,
                    written, state_name, state_abbrev, output_filename, files,
                    all_states >>

\* lines 689-719: the closing report
MainEnd ==
    /\ pc = "main_loop"
    /\ g > Len(Groupings(all_states))
    /\ pc' = "main_done"
    /\ UNCHANGED << sessions_to_include, calendar_title, cal_name, events,
                    total_blocks, total_days, idx, session_data, session_days,
                    session_blocks, current_block_start, current_block_end, i,
                    written, state_name, state_abbrev, output_filename, files,
                    g, all_states >>

(***************************************************************************)
(* Specifications                                                          *)
(***************************************************************************)
BoundedSeq(S, n) == UNION { [1..k -> S] : k \in 0..n }

\* Session ids the calls of generate_calendar are drawn from: keys of the
\* table (with and without dates, with and without a recess, with and
\* without a STATE_ABBREV match, the two Virginias) and one id that is not
\* a key.
IdPool ==
    { "Wyoming", "Montana", "Virginia", "West_Virginia", "New_Mexico",
      "Missouri", "US_Senate", "Puerto_Rico" }

TitlePool == { None, "Custom Title" }

\* what every call starts from
Fresh ==
    /\ cal_name = None
    /\ events = << >>
    /\ total_blocks = 0
    /\ total_days = 0
    /\ idx = 1
    /\ session_blocks = << >>
    /\ current_block_start = None
    /\ current_block_end = None
    /\ i = 0
    /\ written = FALSE
    /\ state_name = None
    /\ state_abbrev = None
    /\ output_filename = "output/calendar.ics"
    /\ files = << >>
    /\ g = 0
    /\ all_states = << >>

\* Spec: a call generate_calendar(sessions_to_include, _, calendar_title)
Init ==
    /\ pc = "start"
    /\ sessions_to_include \in BoundedSeq(IdPool, MaxIds)
    /\ calendar_title \in TitlePool
    /\ session_data = None
    /\ session_days = << >>
    /\ Fresh

Next ==
    \/ DetermineTitle
    \/ SkipUnknown
    \/ LoadSession
    \/ GenerateDays
    \/ GroupBegin
    \/ GroupStep
    \/ GroupEnd
    \/ AddEvents
    \/ WriteFile

Spec == Init /\ [][Next]_vars

\* SpecBlocks: group_consecutive_days and the event loop on any ordered,
\* duplicate-free list of dates drawn from NumDays consecutive dates
DayPool == [ k \in 1..NumDays |-> date(2026, 1, 5) + (k - 1) ]

OrderedDays(S) == SelectSeq(DayPool, LAMBDA d : d \in S)

InitBlocks ==
    /\ pc = "group"
    /\ \E S \in SUBSET { DayPool[k] : k \in 1..NumDays } :
           session_days = OrderedDays(S)
    /\ \E sid \in { "Wyoming", "US_Senate" } :
           /\ sessions_to_include = << sid >>
           /\ session_data = LEGISLATIVE_SESSIONS_2026[sid]
    /\ calendar_title = None
    /\ Fresh

NextBlocks ==
    \/ GroupBegin
    \/ GroupStep
    \/ GroupEnd
    \/ AddEvents

SpecBlocks == InitBlocks /\ [][NextBlocks]_vars

\* SpecDays: generate_session_days on any session_data whose dates are
\* among the first NumDates of DateStrs (from a Wednesday on, over New
\* Year's Day and one weekend), and on every session_data of the table
DateStrs ==
    << "2025-12-31", "2026-01-01", "2026-01-02", "2026-01-03", "2026-01-04",
       "2026-01-05", "2026-01-06", "2026-01-07", "2026-01-08", "2026-01-09" >>

\* the date ranges with start <= end
Ranges ==
    UNION { { << DateStrs[a], DateStrs[b] >> : b \in a..NumDates } : a \in 1..NumDates }

SessionDataPool ==
    LET dated(r)   == [ name |-> "Wyoming Legislature",
                        start_date |-> r[1], end_date |-> r[2] ]
        undated    == [ name |-> "Montana Legislature",
                        start_date |-> None, end_date |-> None ]
        bare       == { dated(r) : r \in Ranges } \cup { undated }
    IN  bare \cup
        { sd @@ [ recess_periods |-> rp ] :
            sd \in bare, rp \in BoundedSeq(Ranges, MaxRecess) } \cup
        { LEGISLATIVE_SESSIONS_2026[k] : k \in DOMAIN LEGISLATIVE_SESSIONS_2026 }

InitDays ==
    /\ pc = "days"
    /\ session_data \in SessionDataPool
    /\ sessions_to_include = << >>
    /\ calendar_title = None
    /\ session_days = << >>
    /\ Fresh

NextDays == GenerateDays

SpecDays == InitDays /\ [][NextDays]_vars

\* SpecPipeline: generate_session_days, group_consecutive_days and the
\* event loop in a row, on every session of the table under its own id and
\* on every drawn session_data
InitPipeline ==
    /\ pc = "days"
    /\ \/ \E sid \in DOMAIN LEGISLATIVE_SESSIONS_2026 :
              /\ sessions_to_include = << sid >>
              /\ session_data = LEGISLATIVE_SESSIONS_2026[sid]
       \/ /\ sessions_to_include = << "Wyoming" >>
          /\ session_data \in SessionDataPool
    /\ calendar_title = None
    /\ session_days = << >>
    /\ Fresh

NextPipeline ==
    \/ GenerateDays
    \/ GroupBegin
    \/ GroupStep
    \/ GroupEnd
    \/ AddEvents

SpecPipeline == InitPipeline /\ [][NextPipeline]_vars

\* SpecAbbrev: get_state_abbrev on every display name of the table and on
\* names that match no key, two keys, or a key inside a longer word
NamePool ==
    { LEGISLATIVE_SESSIONS_2026[k].name : k \in DOMAIN LEGISLATIVE_SESSIONS_2026 }
    \cup { "Puerto Rico Legislature", "Kansas and Arkansas", "Arkansas",
           "District of Columbia Council", "" }

InitAbbrev ==
    /\ pc = "abbrev"
    /\ state_name \in NamePool
    /\ state_abbrev = None
    /\ sessions_to_include = << >>
    /\ calendar_title = None
    /\ session_data = None
    /\ session_days = << >>
    /\ cal_name = None
    /\ events = << >>
    /\ total_blocks = 0
    /\ total_days = 0
    /\ idx = 1
    /\ session_blocks = << >>
    /\ current_block_start = None
    /\ current_block_end = None
    /\ i = 0
    /\ written = FALSE
    /\ output_filename = None
    /\ files = << >>
    /\ g = 0
    /\ all_states = << >>

NextAbbrev == ResolveAbbrev

SpecAbbrev == InitAbbrev /\ [][NextAbbrev]_vars

\* SpecMain: one run of main()
InitMain ==
    /\ pc = "main"
    /\ sessions_to_include = << >>
    /\ calendar_title = None
    /\ session_data = None
    /\ session_days = << >>
    /\ cal_name = None
    /\ events = << >>
    /\ total_blocks = 0
    /\ total_days = 0
    /\ idx = 1
    /\ session_blocks = << >>
    /\ current_block_start = None
    /\ current_block_end = None
    /\ i = 0
    /\ written = FALSE
    /\ state_name = None
    /\ state_abbrev = None
    /\ output_filename = None
    /\ files = << >>
    /\ g = 0
    /\ all_states = << >>

NextMain ==
    \/ MainBegin
    \/ MainCall
    \/ DetermineTitle
    \/ LoadSession
    \/ GenerateDays
    \/ GroupBegin
    \/ GroupStep
    \/ GroupEnd
    \/ AddEvents
    \/ WriteFile
    \/ MainReturn
    \/ MainEnd

SpecMain == InitMain /\ [][NextMain]_vars

(***************************************************************************)
(* Properties                                                              *)
(***************************************************************************)
\* what the properties say of dates, independently of the code's helpers
IsMondayToFriday(d) == (d - date(2026, 1, 5)) % 7 \in 0..4  \* 2026-01-05 is a Monday

HolidaySet == { FEDERAL_HOLIDAYS_2026[k] : k \in 1..Len(FEDERAL_HOLIDAYS_2026) }

RecessOf(sd) == IF "recess_periods" \in DOMAIN sd THEN sd.recess_periods ELSE << >>

InSomeRecess(d, sd) ==
    \E k \in 1..Len(RecessOf(sd)) :
        d \in strptime(RecessOf(sd)[k][1])..strptime(RecessOf(sd)[k][2])

\* the dates of a dated session that qualify as session days
Qualifying(sd) ==
    { d \in strptime(sd.start_date)..strptime(sd.end_date) :
        IsMondayToFriday(d) /\ d \notin HolidaySet /\ ~InSomeRecess(d, sd) }

Range(s) == { s[k] : k \in 1..Len(s) }

StrictlyAscending(s) == \A k \in 1..(Len(s) - 1) : s[k] < s[k + 1]

Dated(sd) == sd.start_date # None /\ sd.end_date # None

\* C1: for a session with a range start <= end, generate_session_days
\* returns exactly the dates of [start, end] that are Monday-Friday, not a
\* holiday and in no inclusive recess window, in strictly ascending order.
C1_SessionDaysExact ==
    (pc = "group" /\ Dated(session_data)) =>
        /\ Range(session_days) = Qualifying(session_data)
        /\ StrictlyAscending(session_days)

\* C1 witness: a result of two or more days from a range that also held a
\* weekend day, a holiday, and a working day lost to a recess
C1_Witness ==
    /\ pc = "group"
    /\ Dated(session_data)
    /\ Len(session_days) >= 2
    /\ \E d \in strptime(session_data.start_date)..strptime(session_data.end_date) :
           ~IsMondayToFriday(d)
    /\ \E d \in strptime(session_data.start_date)..strptime(session_data.end_date) :
           d \in HolidaySet
    /\ \E d \in strptime(session_data.start_date)..strptime(session_data.end_date) :
           IsMondayToFriday(d) /\ d \notin HolidaySet /\ InSomeRecess(d, session_data)

\* the days start..end of a block, in order
ExpandBlock(b) == [ k \in 1..(b[2] - b[1] + 1) |-> b[1] + (k - 1) ]

RECURSIVE FlattenBlocks(_)
FlattenBlocks(blocks) ==
    IF blocks = << >> THEN << >>
    ELSE ExpandBlock(Head(blocks)) \o FlattenBlocks(Tail(blocks))

\* C2: expanding the blocks group_consecutive_days returns into their days
\* and concatenating them in order gives back the input list; the empty
\* list gives no block.
C2_GrouperRoundTrip ==
    pc = "blocks" =>
        /\ FlattenBlocks(session_blocks) = session_days
        /\ (session_days = << >> => session_blocks = << >>)

\* C2 witness: a grouped input with a gap, giving a many-day block and a
\* one-day block
C2_Witness ==
    /\ pc = "blocks"
    /\ Len(session_days) >= 3
    /\ \E m, n \in 1..Len(session_blocks) :
           /\ session_blocks[m][1] < session_blocks[m][2]
           /\ session_blocks[n][1] = session_blocks[n][2]

\* the block a date of the input falls in
BlockOf(d) ==
    CHOOSE n \in 1..Len(session_blocks) :
        session_blocks[n][1] <= d /\ d <= session_blocks[n][2]

\* C3: the blocks are maximal runs: each has start <= end, each next block
\* starts more than one day after the previous block's end, and two input
\* dates share a block exactly when every date between them is in the input.
C3_BlocksAreMaximalRuns ==
    pc = "blocks" =>
        /\ \A n \in 1..Len(session_blocks) :
               session_blocks[n][1] <= session_blocks[n][2]
        /\ \A n \in 1..(Len(session_blocks) - 1) :
               session_blocks[n + 1][1] > session_blocks[n][2] + 1
        /\ \A a, b \in Range(session_days) :
               a <= b =>
                   /\ \E n \in 1..Len(session_blocks) :
                          session_blocks[n][1] <= a /\ a <= session_blocks[n][2]
                   /\ (BlockOf(a) = BlockOf(b)) <=> (a..b \subseteq Range(session_days))

\* C3 witness: two adjacent input dates in one block and a later input
\* date, after a gap, in another
C3_Witness ==
    /\ pc = "blocks"
    /\ \E a, b, c \in Range(session_days) :
           /\ b = a + 1
           /\ c > b + 1
           /\ (b + 1) \notin Range(session_days)
           /\ BlockOf(a) = BlockOf(b)
           /\ BlockOf(c) # BlockOf(b)

\* the code the formatter puts in front of a title
CodeOf(sd) == get_state_abbrev(sd.name)

\* C4: the event of a block is titled "<code> - In Session" when the block
\* is one day and "<code> - In Session (<N> days)" otherwise, N being
\* end - start + 1, which is the number of session days the block covers.
C4_TitleDayCount ==
    (pc = "loop" /\ idx = 2) =>
        /\ Len(events) = Len(session_blocks)
        /\ \A n \in 1..Len(session_blocks) :
               LET s == session_blocks[n][1]
                   e == session_blocks[n][2]
                   N == (e - s) + 1
               IN  /\ s <= e
                   /\ N = Cardinality({ d \in Range(session_days) : s <= d /\ d <= e })
                   /\ events[n].summary =
                          IF s = e
                          THEN CodeOf(session_data) \o " - In Session"
                          ELSE CodeOf(session_data) \o " - In Session ("
                                   \o ToString(N) \o " days)"

\* C4 witness: a document with a one-day event and a three-day event
C4_Witness ==
    /\ pc = "loop"
    /\ \E m, n \in 1..Len(events) :
           /\ events[m].summary = "WY - In Session"
           /\ events[n].summary = "WY - In Session (3 days)"

\* C5: an event starts on its block's first day and ends the day after its
\* last, so [dtstart, dtend) holds exactly the block's days and dtend is
\* not one of them.
C5_ExclusiveEnd ==
    (pc = "loop" /\ idx = 2) =>
        /\ Len(events) = Len(session_blocks)
        /\ \A n \in 1..Len(session_blocks) :
               LET s == session_blocks[n][1]
                   e == session_blocks[n][2]
                   covered == { d \in (s - 1)..(e + 2) :
                                  events[n].dtstart <= d /\ d < events[n].dtend }
               IN  /\ events[n].dtstart = s
                   /\ events[n].dtend = e + 1
                   /\ covered = s..e
                   /\ covered = { d \in Range(session_days) : s <= d /\ d <= e }
                   /\ events[n].dtend \notin covered

\* C5 witness: an event of several days whose dtend is the day after the
\* block's last day, and not a session day
C5_Witness ==
    /\ pc = "loop"
    /\ \E n \in 1..Len(events) :
           /\ events[n].dtend = session_blocks[n][2] + 1
           /\ events[n].dtend > events[n].dtstart + 1
           /\ events[n].dtend \notin Range(session_days)

(***************************************************************************)
(* What a document is to hold, stated from the session table alone: the    *)
(* maximal runs of each session's qualifying dates, one event per run.     *)
(***************************************************************************)
Known(sid) == sid \in DOMAIN LEGISLATIVE_SESSIONS_2026

Min(S) == CHOOSE x \in S : \A y \in S : x <= y

ExpectedBlocks(sd) ==
    IF ~Dated(sd) THEN { }
    ELSE LET Q      == Qualifying(sd)
             starts == { s \in Q : (s - 1) \notin Q }
             ends   == { e \in Q : (e + 1) \notin Q }
         IN  { << s, Min({ e \in ends : e >= s }) >> : s \in starts }

ExpectedEvent(sid, sd, b, n) ==
    [ summary     |-> IF b[1] = b[2]
                      THEN CodeOf(sd) \o " - In Session"
                      ELSE CodeOf(sd) \o " - In Session ("
                               \o ToString(b[2] - b[1] + 1) \o " days)",
      dtstart     |-> b[1],
      dtend       |-> b[2] + 1,
      description |-> "Legislature in session",
      uid         |-> sid \o "-2026-block-" \o ToString(n)
                          \o "@legislative-calendar.beekeepergroup.com",
      transp      |-> "TRANSPARENT" ]

\* the events of one known session, in chronological order, numbered from 0
ExpectedEventsOf(sid) ==
    LET sd == LEGISLATIVE_SESSIONS_2026[sid]
        B  == ExpectedBlocks(sd)
    IN  [ n \in 1..Cardinality(B) |->
            ExpectedEvent(sid, sd,
                CHOOSE b \in B : Cardinality({ c \in B : c[1] < b[1] }) = n - 1,
                n - 1) ]

\* the events of the known ids of a list, in list order
RECURSIVE ExpectedDocument(_)
ExpectedDocument(ids) ==
    IF ids = << >> THEN << >>
    ELSE (IF Known(Head(ids)) THEN ExpectedEventsOf(Head(ids)) ELSE << >>)
         \o ExpectedDocument(Tail(ids))

NoRepeatedId(ids) ==
    \A a, b \in 1..Len(ids) : a # b => ids[a] # ids[b]

UidsPairwiseDistinct ==
    \A a, b \in 1..Len(events) : a # b => events[a].uid # events[b].uid

\* C6, as claimed: for every list of session ids, the uids of the events of
\* the document are pairwise distinct.
C6_UidsDistinctForEveryList ==
    pc \in { "loop", "done" } => UidsPairwiseDistinct

\* C6, amended: for every list of pairwise distinct session ids, the uids of
\* the events of the document are pairwise distinct.
C6_UidsDistinctForDistinctIds ==
    (pc \in { "loop", "done" } /\ NoRepeatedId(sessions_to_include)) =>
        UidsPairwiseDistinct

\* C6 witness: a finished document with the blocks of two different
\* sessions, several of each
C6_Witness ==
    /\ pc = "done"
    /\ sessions_to_include = << "Wyoming", "Virginia" >>
    /\ \E a, b, c, d \in 1..Len(events) :
           /\ a < b /\ b < c /\ c < d
           /\ events[a].summary = events[b].summary
           /\ events[a].summary = "WY - In Session (5 days)"
           /\ events[c].summary = events[d].summary
           /\ events[c].summary = "VA - In Session (5 days)"

\* C7: with or without a title override, an id that is not in the session
\* table raises no error: the call completes, writes the document, and the
\* document holds exactly the events of the known ids of the list.
C7_UnknownIdsSkipped ==
    /\ pc # "KeyError"
    /\ pc = "done" =>
           /\ written
           /\ events = ExpectedDocument(sessions_to_include)

\* C7 holds of every call whose title is not derived from the single id of
\* the list: the failing calls are exactly those of one unknown id and no
\* title override.
C7_SkippedUnlessTitleDerived ==
    /\ pc = "KeyError" =>
           /\ calendar_title = None
           /\ Len(sessions_to_include) = 1
           /\ ~Known(sessions_to_include[1])
    /\ pc = "done" =>
           /\ written
           /\ events = ExpectedDocument(sessions_to_include)

Undated(sd) == sd.start_date = None /\ sd.end_date = None

\* C8: a session with no start and end date gives no session days and no
\* blocks (the grouper's loop is not entered), adds no event and adds 0 to
\* both totals, and the call goes on to the next id of the list.
C8_UndatedSessionIsEmpty ==
    [][ /\ (pc = "days" /\ Undated(session_data)) =>
              (session_days' = << >> /\ pc' = "group")
        /\ (pc = "group" /\ Undated(session_data)) =>
              (session_days = << >> /\ session_blocks' = << >> /\ pc' = "blocks")
        /\ (pc = "blocks" /\ Undated(session_data)) =>
              /\ session_blocks = << >>
              /\ events' = events
              /\ total_blocks' = total_blocks
              /\ total_days' = total_days
              /\ idx' = idx + 1
              /\ pc' = "loop"
      ]_vars

\* C8 witness: a finished call that went past an undated session and then
\* added the events of the session listed after it
C8_Witness ==
    /\ pc = "done"
    /\ written
    /\ sessions_to_include = << "Montana", "Wyoming" >>
    /\ Len(events) > 0
    /\ total_blocks = Len(events)

\* the keys of STATE_ABBREV that are substrings of a name
MatchingKeys(name) ==
    { k \in 1..Len(STATE_ABBREV) : Contains(name, STATE_ABBREV[k][1]) }

\* main's state sessions: every key of the table but the two chambers
StateSessions == DOMAIN LEGISLATIVE_SESSIONS_2026 \ { "US_House", "US_Senate" }

\* a session id with its underscores turned into spaces: its jurisdiction
RECURSIVE Jurisdiction(_)
Jurisdiction(sid) ==
    IF Len(sid) = 0 THEN ""
    ELSE (IF SubSeq(sid, 1, 1) = "_" THEN " " ELSE SubSeq(sid, 1, 1))
         \o Jurisdiction(SubSeq(sid, 2, Len(sid)))

\* C9: get_state_abbrev returns the code of the longest key that is a
\* substring of the name, or the name when no key is; so every state
\* session of the table resolves to the postal abbreviation of its own
\* jurisdiction, and no two state sessions resolve to the same code.
C9_LongestKeyMatch ==
    pc = "resolved" =>
        /\ IF MatchingKeys(state_name) = { }
           THEN state_abbrev = state_name
           ELSE \E k \in MatchingKeys(state_name) :
                    /\ \A j \in MatchingKeys(state_name) :
                           Len(STATE_ABBREV[j][1]) <= Len(STATE_ABBREV[k][1])
                    /\ state_abbrev = STATE_ABBREV[k][2]
        /\ \A sid \in StateSessions :
               LEGISLATIVE_SESSIONS_2026[sid].name = state_name =>
                   /\ \E k \in 1..Len(STATE_ABBREV) :
                          /\ STATE_ABBREV[k][1] = Jurisdiction(sid)
                          /\ STATE_ABBREV[k][2] = state_abbrev
                   /\ \A other \in StateSessions \ { sid } :
                          get_state_abbrev(LEGISLATIVE_SESSIONS_2026[other].name)
                              # state_abbrev

\* C9 holds of the first matching key in table order in place of the
\* longest: what get_state_abbrev returns for every name.
C9_FirstKeyMatch ==
    pc = "resolved" =>
        IF MatchingKeys(state_name) = { }
        THEN state_abbrev = state_name
        ELSE state_abbrev = STATE_ABBREV[Min(MatchingKeys(state_name))][2]

\* C10: the document title is the override when one is given; else, for a
\* list of exactly one id, "<code> - 2026 Legislative Session" with the code
\* of that session's display name; else the generic title.
C10_DocumentTitle ==
    pc \notin { "start", "KeyError" } =>
        /\ calendar_title # None => cal_name = calendar_title
        /\ (calendar_title = None /\ Len(sessions_to_include) = 1) =>
               cal_name = CodeOf(LEGISLATIVE_SESSIONS_2026[sessions_to_include[1]])
                              \o " - 2026 Legislative Session"
        /\ (calendar_title = None /\ Len(sessions_to_include) # 1) =>
               cal_name = "Legislative Sessions Calendar 2026"

\* C10 witness: a finished call for one id and no override, titled from
\* that session's display name
C10_Witness ==
    /\ pc = "done"
    /\ calendar_title = None
    /\ sessions_to_include = << "Wyoming" >>
    /\ cal_name = "WY - 2026 Legislative Session"

\* the blocks each of the first n ids of a list puts in the document
BlocksPerId(ids, n) ==
    [ p \in 1..n |->
        IF Known(ids[p])
        THEN ExpectedBlocks(LEGISLATIVE_SESSIONS_2026[ids[p]])
        ELSE { } ]

\* the number of blocks of the first p entries of such a list
RECURSIVE BlocksBefore(_, _)
BlocksBefore(per, p) ==
    IF p = 0 THEN 0 ELSE BlocksBefore(per, p - 1) + Cardinality(per[p])

\* C11: the events stand in the document in the order of the ids of the
\* list and, within a session, in chronological block order, each starting
\* after the one before it ends; the number in an event's uid is the 0-based
\* index of its block within its own session, starting again at 0 for each
\* session.
C11_EventOrderAndNumbering ==
    pc \in { "loop", "done" } =>
        \A per \in { BlocksPerId(sessions_to_include, idx - 1) } :
            /\ Len(events) = BlocksBefore(per, idx - 1)
            /\ \A p \in 1..(idx - 1) :
                   \A first \in { BlocksBefore(per, p - 1) + 1 } :
                       \A m \in first..BlocksBefore(per, p) :
                           /\ events[m].uid =
                                  sessions_to_include[p] \o "-2026-block-"
                                      \o ToString(m - first)
                                      \o "@legislative-calendar.beekeepergroup.com"
                           /\ m > first => events[m].dtstart >= events[m - 1].dtend
                           /\ << events[m].dtstart, events[m].dtend - 1 >> \in per[p]

\* C11 witness: a finished document of two sessions where the first event
\* of the second session, not the first of the document, is numbered 0 and
\* starts before the event that stands before it
C11_Witness ==
    /\ pc = "done"
    /\ sessions_to_include = << "Wyoming", "Virginia" >>
    /\ \E m \in 2..Len(events) :
           /\ events[m].uid =
                  "Virginia-2026-block-0@legislative-calendar.beekeepergroup.com"
           /\ events[m - 1].uid =
                  "Wyoming-2026-block-3@legislative-calendar.beekeepergroup.com"
           /\ events[m].dtstart < events[m - 1].dtstart

\* the sum over the events of a document of dtend - dtstart, in days
SpannedDays(evs) ==
    Cardinality(UNION { { << n, d >> : d \in evs[n].dtstart..(evs[n].dtend - 1) } :
                          n \in 1..Len(evs) })

\* C13: once a session is processed, and when the call ends, the reported
\* total block count is the number of events of the document and the
\* reported total day count is the sum of dtend - dtstart over them; the
\* block count and day count reported for one session are the number and
\* the summed days of the events that session added.
C13_Accounting ==
    [][ /\ pc' \in { "loop", "done" } =>
              /\ total_blocks' = Len(events')
              /\ total_days' = SpannedDays(events')
        /\ pc = "blocks" =>
              /\ Len(session_blocks) = Len(events') - Len(events)
              /\ Len(session_days) = SpannedDays(events') - SpannedDays(events)
      ]_vars

\* C13 witness: a finished document of two sessions whose totals count
\* many-day events
C13_Witness ==
    /\ pc = "done"
    /\ sessions_to_include = << "New_Mexico", "Missouri" >>
    /\ total_blocks = Len(events)
    /\ total_days = SpannedDays(events)
    /\ total_days > total_blocks
    /\ total_blocks > Len(session_blocks)

\* the Monday of the week a date lies in
MondayOf(d) == d - ((d - date(2026, 1, 5)) % 7)

\* C14: every block grouped from a session's session days lies within one
\* Monday-Friday week: it starts and ends on a weekday, holds no Saturday,
\* Sunday, holiday or recess date, and is 1 to 5 days long, so no title
\* reports more than 5 days.
C14_BlocksWithinOneWeek ==
    /\ pc = "blocks" =>
           \A n \in 1..Len(session_blocks) :
               \A s \in { session_blocks[n][1] } : \A e \in { session_blocks[n][2] } :
                   /\ IsMondayToFriday(s)
                   /\ IsMondayToFriday(e)
                   /\ MondayOf(s) = MondayOf(e)
                   /\ (e - s) + 1 \in 1..5
                   /\ \A d \in s..e :
                          /\ IsMondayToFriday(d)
                          /\ d \notin HolidaySet
                          /\ ~InSomeRecess(d, session_data)
    /\ (pc = "loop" /\ idx = 2) =>
           \A n \in 1..Len(events) :
               events[n].summary \in
                   { CodeOf(session_data) \o " - In Session" } \cup
                   { CodeOf(session_data) \o " - In Session (" \o ToString(N) \o " days)" :
                       N \in 2..5 }

\* C14 witness: the events of a session with recesses and holidays in its
\* range, among them a full week, a week cut short and a single day
C14_Witness ==
    /\ pc = "loop"
    /\ Len(RecessOf(session_data)) > 0
    /\ \E a, b, c \in 1..Len(events) :
           /\ events[a].dtend - events[a].dtstart = 5
           /\ events[b].dtend - events[b].dtstart = 4
           /\ events[c].dtend - events[c].dtstart = 1
           /\ (events[b].dtstart - 1) \in HolidaySet

\* the path main gives the file of one state
StateFile(sid) == "output/" \o lower(sid) \o "_legislative_calendar_2026.ics"

\* the paths of the groupings that are not one state's
GroupFiles ==
    { "output/federal_legislative_calendar_2026.ics",
      "output/all_legislative_sessions_2026.ics",
      "output/northeast_states_2026.ics", "output/southeast_states_2026.ics",
      "output/midwest_states_2026.ics", "output/west_states_2026.ics" }

\* C12: in one run of main every call of generate_calendar writes exactly
\* one file and no two calls write to the same path; the files of single
\* states are exactly those of the sessions, the two chambers apart, that
\* have a start date.
C12_OneFilePerGrouping ==
    /\ pc = "main" => files = << >>
    /\ pc = "done" => Len(files) = g
    /\ pc \notin { "main", "done" } => Len(files) = g - 1
    /\ NoRepeatedId(files)
    /\ pc = "main_done" =>
           /\ g = Cardinality(GroupFiles) + Len(all_states) + 1
           /\ Range(files) \ GroupFiles =
                  { StateFile(sid) : sid \in
                      { s \in StateSessions :
                          LEGISLATIVE_SESSIONS_2026[s].start_date # None } }
           /\ GroupFiles \subseteq Range(files)

\* C12 witness: the run has ended with 52 files written, West Virginia's
\* and Virginia's among them and none for Montana
C12_Witness ==
    /\ pc = "main_done"
    /\ Len(files) = Len(all_states) + Cardinality(GroupFiles)
    /\ \E a, b \in 1..Len(files) :
           /\ files[a] = "output/virginia_legislative_calendar_2026.ics"
           /\ files[b] = "output/west_virginia_legislative_calendar_2026.ics"
    /\ \A a \in 1..Len(files) :
           files[a] # "output/montana_legislative_calendar_2026.ics"

====
